---- MODULE Spec2Model ----
(***************************************************************************)
(* Portfolio report ("X-ray") of ghostfolio: the currency-concentration    *)
(* rule CurrencyClusterRiskBaseCurrencyInitialInvestment, the grouping     *)
(* helper it calls, the rule evaluator and the endpoints of the portfolio  *)
(* controller.                                                             *)
(*                                                                         *)
(* Amounts are integers in units of 1000 of the base currency.  A          *)
(* JavaScript number that the code computes is the double of a quotient    *)
(* of two integers, or one of NaN, Infinity, -Infinity.                    *)
(***************************************************************************)
EXTENDS Integers, Sequences, FiniteSets, TLC

\* ------------------------------------------------------------------ bounds

\* Largest number of positions a portfolio holds.
MaxPositions == 2

\* Currencies of the positions and of the user settings (Prisma's Currency).
Currencies == {"USD", "EUR"}

\* Cost basis of one position.  Selling above the purchase price drives the
\* cost basis of what is left below zero, so negative amounts occur.
Investments == -2 .. 4

\* Accumulated fees of a portfolio.
Fees == 0 .. 1

\* Sectors a position can be allocated to, and the granularity of a weight:
\* a weight is k / WeightUnit with 0 < k <= WeightUnit.
Sectors == {"Technology", "Healthcare"}

WeightUnit == 2

\* Largest number of positions in the sector grouping.
MaxSectorPositions == 2

\* Investment of a position in the sector grouping.
SectorInvestments == 0 .. 2

\* Number of report requests one behaviour serves.
MaxRuns == 2

\* ------------------------------------------------------------- JS numbers

\* A finite number is the double that (num / den) * times computes: the
\* quotient of the two integers rounded to the nearest double, and its
\* product with times rounded again.  times is 1 until the number is
\* multiplied; den > 0.
Finite(n, d) == [kind |-> "finite", num |-> n, den |-> d, times |-> 1]

NaN == [kind |-> "NaN", num |-> 0, den |-> 1, times |-> 1]

PosInfinity == [kind |-> "Infinity", num |-> 0, den |-> 1, times |-> 1]

NegInfinity == [kind |-> "-Infinity", num |-> 0, den |-> 1, times |-> 1]

Abs(x) == IF x < 0 THEN -x ELSE x

\* a / b of two numbers, a being absent (undefined) when hasA is FALSE:
\* undefined / b is NaN, 0 / 0 is NaN, a / 0 is +-Infinity.
JsDivide(hasA, a, b) ==
    IF ~hasA THEN NaN
    ELSE IF b = 0
         THEN IF a = 0 THEN NaN ELSE IF a > 0 THEN PosInfinity ELSE NegInfinity
         ELSE IF b > 0 THEN Finite(a, b) ELSE Finite(-a, -b)

\* x || 0 : NaN and 0 are falsy, every other number is kept.
JsOrZero(x) ==
    IF x.kind = "NaN" \/ (x.kind = "finite" /\ x.num = 0)
    THEN Finite(0, 1)
    ELSE x

\* x * 100 of a quotient x
JsTimes100(x) == IF x.kind = "finite" THEN [x EXCEPT !.times = 100] ELSE x

RECURSIVE Pow10(_)
Pow10(k) == IF k <= 0 THEN 1 ELSE 10 * Pow10(k - 1)

\* The decimal exponent e of p / q > 0 : 10^e <= p / q < 10^(e+1).
RECURSIVE DecimalExponent(_, _)
DecimalExponent(p, q) ==
    IF p >= 10 * q THEN DecimalExponent(p, 10 * q) + 1
    ELSE IF p < q THEN DecimalExponent(10 * p, q) - 1
    ELSE 0

\* a / b rounded to the nearest integer, a half rounded up (a >= 0, b > 0).
RoundHalfUp(a, b) == (2 * a + b) \div (2 * b)

\* ---- the double of a quotient, bit by bit
\* A natural number of any size is the sequence of its bits, the least
\* significant first and the last one 1; <<>> is 0.  An integer of the model
\* is below 2^31, so the arithmetic on sequences goes by groups of bits whose
\* products stay below 2^30.

\* Bits of the significand of a double.
MantissaBits == 53

\* The number of bits of n: 0 for 0.
BitLength(n) == Cardinality({i \in 0 .. 30 : 2^i <= n})

\* The w lowest bits of n
LowBits(n, w) == [i \in 1 .. w |-> (n \div 2^(i - 1)) % 2]

Bits(n) == LowBits(n, BitLength(n))

\* The number that a sequence of at most 30 bits is.
RECURSIVE Value(_)
Value(bits) ==
    IF Len(bits) = 0 THEN 0
    ELSE IF Len(bits) = 1 THEN bits[1]
    ELSE LET half == Len(bits) \div 2
         IN  Value(SubSeq(bits, 1, half))
                + 2^half * Value(SubSeq(bits, half + 1, Len(bits)))

\* The bits that one step of a product with k, or of a division by k, takes.
StepBits(k) == 30 - BitLength(k)

\* bits * k + carry for 0 < k < 2^29 and carry < k, as the bits of the
\* product that the sequence has places for and the carry above them: the
\* sequence is multiplied in one step when it is short enough, and half by
\* half otherwise, the lower half first.
RECURSIVE TimesFrom(_, _, _)
TimesFrom(bits, k, carry) ==
    IF Len(bits) <= StepBits(k)
    THEN LET product == Value(bits) * k + carry
         IN  [bits |-> LowBits(product, Len(bits)),
              carry |-> product \div 2^Len(bits)]
    ELSE LET half == Len(bits) \div 2
             low == TimesFrom(SubSeq(bits, 1, half), k, carry)
             high == TimesFrom(SubSeq(bits, half + 1, Len(bits)), k, low.carry)
         IN  [bits |-> low.bits \o high.bits, carry |-> high.carry]

TimesSmall(bits, k, carry) ==
    LET product == TimesFrom(bits, k, carry)
    IN  product.bits \o Bits(product.carry)

\* bits * 2^s
ShiftLeft(bits, s) == IF Len(bits) = 0 THEN <<>> ELSE [i \in 1 .. s |-> 0] \o bits

BitAt(bits, i) == IF i <= Len(bits) THEN bits[i] ELSE 0

\* x < y
IsLess(x, y) ==
    \E i \in 1 .. Len(y) :
        /\ y[i] = 1
        /\ BitAt(x, i) = 0
        /\ \A j \in (i + 1) .. (IF Len(x) > Len(y) THEN Len(x) ELSE Len(y)) :
              BitAt(x, j) = BitAt(y, j)

\* bits + 1: the lowest ones become zeros and the zero above them a one.
Increment(bits) ==
    LET ones == Cardinality({i \in 1 .. Len(bits) : \A j \in 1 .. i : bits[j] = 1})
    IN  [i \in 1 .. (IF ones = Len(bits) THEN ones + 1 ELSE Len(bits)) |->
            IF i <= ones THEN 0 ELSE IF i = ones + 1 THEN 1 ELSE bits[i]]

\* The leading zeros taken off.
Trim(bits) ==
    SubSeq(bits, 1,
           Cardinality({i \in 1 .. Len(bits) : \E j \in i .. Len(bits) : bits[j] = 1}))

\* The sequence from its last element to its first.
Reverse(seq) == [i \in 1 .. Len(seq) |-> seq[Len(seq) + 1 - i]]

\* Long division by b < 2^29: the next steps groups of w bits of the
\* quotient of a remainder r < b, the most significant bit first, and the
\* remainder after them; one group is one division, more are divided half by
\* half.
RECURSIVE DivideFrom(_, _, _, _)
DivideFrom(r, b, w, steps) ==
    IF steps = 1
    THEN [bits |-> Reverse(LowBits((r * 2^w) \div b, w)), r |-> (r * 2^w) % b]
    ELSE LET high == DivideFrom(r, b, w, steps \div 2)
             low == DivideFrom(high.r, b, w, steps - steps \div 2)
         IN  [bits |-> high.bits \o low.bits, r |-> low.r]

\* Round to nearest, ties to even: the number bits * 2^exponent written as
\* mantissa * 2^exponent with a mantissa of MantissaBits bits; inexact tells
\* that the number is larger than its bits say, by less than one unit of the
\* last bit.
RoundToNearestEven(bits, inexact, exponent) ==
    LET drop == Len(bits) - MantissaBits
    IN  IF drop <= 0 THEN [mantissa |-> bits, exponent |-> exponent]
        ELSE LET kept == SubSeq(bits, drop + 1, Len(bits))
                 half == bits[drop] = 1
                 more == inexact \/ \E i \in 1 .. (drop - 1) : bits[i] = 1
                 up == half /\ (more \/ kept[1] = 1)
             IN  [mantissa |-> IF up THEN Increment(kept) ELSE kept,
                  exponent |-> exponent + drop]

\* The double of a quotient from its whole part and the bits of its
\* fraction, which long division gave, the last of them worth 2^exponent.
RoundQuotient(whole, divided, exponent) ==
    RoundToNearestEven(Trim(Reverse(divided.bits) \o whole), divided.r # 0, exponent)

\* The double x * times
TimesDouble(x, times) ==
    RoundToNearestEven(TimesSmall(x.mantissa, times, 0), FALSE, x.exponent)

\* The double (a / b) * times for integers a, b > 0, times >= 1, as
\* mantissa * 2^exponent: the division is rounded, then the product.
DoubleOf(a, b, times) ==
    LET w == StepBits(b)
        steps == (MantissaBits + BitLength(b)) \div w + 1
    IN  TimesDouble(RoundQuotient(Bits(a \div b), DivideFrom(a % b, b, w, steps),
                                  -(w * steps)),
                    times)

\* The double is smaller than the fraction p / q.
IsBelow(double, p, q) ==
    IsLess(ShiftLeft(TimesSmall(double.mantissa, q, 0),
                     IF double.exponent > 0 THEN double.exponent ELSE 0),
           ShiftLeft(Bits(p), IF double.exponent < 0 THEN -double.exponent ELSE 0))

\* The double (a / b) * times is smaller than the fraction a * times / b.
DoubleIsBelow(a, b, times) == IsBelow(DoubleOf(a, b, times), a * times, b)

\* The double of the fraction a / b in units u (a, b > 0), rounded to the
\* nearest integer n, of two nearest the larger.  The double is within
\* 2^-51 of the fraction, relatively, and a fraction that is not half-way
\* between two integers is farther than that from half-way: the double
\* rounds as the fraction does.  A fraction half-way is rounded up when the
\* double is the fraction or above it, and down when the double is below.
RoundDouble(a, b, num, den, times) ==
    IF (2 * a) % b = 0 /\ ((2 * a) \div b) % 2 = 1 /\ DoubleIsBelow(num, den, times)
    THEN a \div b
    ELSE RoundHalfUp(a, b)

\* The numeral of three digits n * 10^(e - 2): 1000 is written 100 with the
\* next exponent.
Numeral3(negative, n, e) ==
    IF n = 1000
    THEN [kind |-> "finite", negative |-> negative, digits |-> 100, exponent |-> e + 1]
    ELSE [kind |-> "finite", negative |-> negative, digits |-> n, exponent |-> e]

\* Number.prototype.toPrecision(3).  The numeral is
\*   (negative ? -1 : 1) * digits * 10^(exponent - 2)
\* with digits = 0 ("0.00") or 100 <= digits <= 999; "NaN" and the infinities
\* are printed by name.  JavaScript writes the same numeral in exponential
\* notation when exponent < -6 or exponent >= 3.
toPrecision3(x) ==
    IF x.kind # "finite"
    THEN [kind |-> x.kind, negative |-> FALSE, digits |-> 0, exponent |-> 0]
    ELSE IF x.num = 0
    THEN [kind |-> "finite", negative |-> FALSE, digits |-> 0, exponent |-> 0]
    ELSE LET p == Abs(x.num) * x.times
             q == x.den
             e == DecimalExponent(p, q)
         IN  Numeral3(x.num < 0,
                      RoundDouble(p * Pow10(2 - e), q * Pow10(e - 2),
                                  Abs(x.num), q, x.times),
                      e)

\* Number.prototype.toFixed(2): the numeral is
\*   (negative ? -1 : 1) * hundredths / 100
\* and "NaN" and the infinities are printed by name.
toFixed2(x) ==
    IF x.kind # "finite"
    THEN [kind |-> x.kind, negative |-> FALSE, hundredths |-> 0]
    ELSE IF x.num = 0
    THEN [kind |-> "finite", negative |-> FALSE, hundredths |-> 0]
    ELSE [kind |-> "finite", negative |-> x.num < 0,
          hundredths |-> RoundDouble(100 * Abs(x.num) * x.times, x.den,
                                     Abs(x.num), x.den, x.times)]

\* Number(numeral) of a numeral of toFixed(2)
JsNumber(numeral) ==
    IF numeral.kind = "NaN" THEN NaN
    ELSE IF numeral.kind = "Infinity" THEN PosInfinity
    ELSE IF numeral.kind = "-Infinity" THEN NegInfinity
    ELSE Finite(IF numeral.negative THEN -numeral.hundredths ELSE numeral.hundredths,
                100)

\* ---------------------------------------------------------------- grouping

Position == [currency : Currencies, investment : Investments]

RECURSIVE SeqsUpTo(_, _)
SeqsUpTo(S, n) ==
    IF n = 0 THEN {<<>>}
    ELSE LET shorter == SeqsUpTo(S, n - 1)
         IN  shorter \cup {Append(s, x) : s \in {t \in shorter : Len(t) = n - 1}, x \in S}

HasGroup(groups, key) == \E i \in DOMAIN groups : groups[i].groupKey = key

\* One position added to the groups built so far: to the group of its key,
\* or to a new group at the end (order of first occurrence).
AddToGroup(groups, key, amount, position) ==
    IF HasGroup(groups, key)
    THEN [i \in DOMAIN groups |->
            IF groups[i].groupKey = key
            THEN [groups[i] EXCEPT !.investment = @ + amount,
                                   !.positions = Append(@, position)]
            ELSE groups[i]]
    ELSE Append(groups, [groupKey |-> key, investment |-> amount,
                         positions |-> <<position>>])

RECURSIVE GroupFrom(_, _, _)
GroupFrom(positions, i, groups) ==
    IF i > Len(positions) THEN groups
    ELSE GroupFrom(positions, i + 1,
                   AddToGroup(groups, positions[i].currency,
                              positions[i].investment, positions[i]))

\* The pinned key gets an empty group of investment 0 when no position has it.
PinKey(groups, pinnedKey) ==
    IF HasGroup(groups, pinnedKey) THEN groups
    ELSE Append(groups, [groupKey |-> pinnedKey, investment |-> 0,
                         positions |-> <<>>])

\* Rule.groupCurrentPositionsByAttribute(positions, 'currency', pinnedKey)
groupCurrentPositionsByAttribute(positions, pinnedKey) ==
    PinKey(GroupFrom(positions, 1, <<>>), pinnedKey)

\* ------------------------------------- the base-currency rule (evaluate)

RuleName == "Initial Investment: Base Currency"

\* getSettings(aUserSettings)
getSettings(aUserSettings) ==
    [baseCurrency |-> aUserSettings.baseCurrency, isActive |-> TRUE]

\* The forEach loop from group i on: the first group of strictly larger
\* investment replaces maxItem.
RECURSIVE FindMaximum(_, _, _)
FindMaximum(groups, i, maxItem) ==
    IF i > Len(groups) THEN maxItem
    ELSE FindMaximum(groups, i + 1,
                     IF groups[i].investment > maxItem.investment
                     THEN groups[i] ELSE maxItem)

\* maxItem after the loop, as a sequence of at most one group: <<>> is
\* undefined (positionsGroupedByCurrency[0] of an empty array).
MaxItem(groups) ==
    IF groups = <<>> THEN <<>> ELSE <<FindMaximum(groups, 1, groups[1])>>

RECURSIVE SumInvestment(_, _)
SumInvestment(groups, i) ==
    IF i > Len(groups) THEN 0
    ELSE groups[i].investment + SumInvestment(groups, i + 1)

\* The total assigned, not accumulated: the investment of the last group.
TotalInvestmentOfLastGroup(groups) ==
    IF groups = <<>> THEN 0 ELSE groups[Len(groups)].investment

\* totalInvestment after the loop.
TotalInvestment(groups) == SumInvestment(groups, 1)

\* The base currency exported by the configuration.
DefaultBaseCurrency == "USD"

\* The lookup by the configuration's base currency, not the rule settings'.
BaseCurrencyItemOfDefault(groups, baseCurrency) ==
    IF HasGroup(groups, DefaultBaseCurrency)
    THEN <<groups[CHOOSE i \in DOMAIN groups :
                     groups[i].groupKey = DefaultBaseCurrency]>>
    ELSE <<>>

\* positionsGroupedByCurrency.find(item => item.groupKey === baseCurrency),
\* as a sequence of at most one group: <<>> is undefined.
BaseCurrencyItem(groups, baseCurrency) ==
    IF HasGroup(groups, baseCurrency)
    THEN LET first == CHOOSE i \in DOMAIN groups :
                        /\ groups[i].groupKey = baseCurrency
                        /\ \A j \in 1 .. (i - 1) : groups[j].groupKey # baseCurrency
         IN  <<groups[first]>>
    ELSE <<>>

\* baseCurrencyItem?.investment / totalInvestment || 0
BaseCurrencyInvestmentRatio(groups, baseCurrency) ==
    LET baseCurrencyItem == BaseCurrencyItem(groups, baseCurrency)
        found == baseCurrencyItem # <<>>
        investment == IF found THEN baseCurrencyItem[1].investment ELSE 0
    IN  JsOrZero(JsDivide(found, investment, TotalInvestment(groups)))

IsInBaseCurrency == "The major part of your initial investment is in your base currency (${percent}% in ${currency})"

IsNotInBaseCurrency == "The major part of your initial investment is not in your base currency (${percent}% in ${currency})"

\* What evaluate does after the grouping: the Evaluation it returns, or the
\* TypeError of reading maxItem.groupKey when maxItem is undefined.
EvaluateGroups(groups, baseCurrency) ==
    LET maxItem == MaxItem(groups)
        percent == toPrecision3(JsTimes100(
                       BaseCurrencyInvestmentRatio(groups, baseCurrency)))
    IN  IF maxItem = <<>>
        THEN [outcome |-> "TypeError", template |-> "", percent |-> toPrecision3(NaN),
              currency |-> baseCurrency, value |-> FALSE]
        ELSE IF maxItem[1].groupKey # baseCurrency
        THEN [outcome |-> "returned", template |-> IsNotInBaseCurrency,
              percent |-> percent, currency |-> baseCurrency, value |-> FALSE]
        ELSE [outcome |-> "returned", template |-> IsInBaseCurrency,
              percent |-> percent, currency |-> baseCurrency, value |-> TRUE]

\* CurrencyClusterRiskBaseCurrencyInitialInvestment.evaluate(ruleSettings)
\* of a rule that holds the positions.
evaluate(ruleSettings, positions) ==
    EvaluateGroups(
        groupCurrentPositionsByAttribute(positions, ruleSettings.baseCurrency),
        ruleSettings.baseCurrency)

RECURSIVE InsertByInvestment(_, _)
InsertByInvestment(sorted, position) ==
    IF sorted = <<>> THEN <<position>>
    ELSE IF position.investment > Head(sorted).investment
         THEN <<position>> \o sorted
         ELSE <<Head(sorted)>> \o InsertByInvestment(Tail(sorted), position)

RECURSIVE SortFrom(_, _, _)
SortFrom(positions, i, sorted) ==
    IF i > Len(positions) THEN sorted
    ELSE SortFrom(positions, i + 1, InsertByInvestment(sorted, positions[i]))

\* The held array sorted in place, largest investment first.
positionsSortedByEvaluate(ruleSettings, positions) == SortFrom(positions, 1, <<>>)

\* What evaluate leaves in this.currentPositions.positions: it assigns to
\* nothing the rule holds, and the grouping builds new GroupItems.
positionsAfterEvaluate(ruleSettings, positions) == positions

\* ------------------------------------------------------- the fee-ratio rule

FeeRatioName == "Initial Investment: Fee Ratio"

\* The fee-ratio threshold, in percent.
FeeRatioThreshold == 1

FeesDoExceed == "The fees do exceed ${threshold}% of your initial investment (${percent}%)"

FeesDoNotExceed == "The fees do not exceed ${threshold}% of your initial investment (${percent}%)"

\* The fee-ratio rule is active when the user settings say so.
getSettingsFeeRatio(aUserSettings) ==
    [baseCurrency |-> aUserSettings.baseCurrency,
     threshold |-> FeeRatioThreshold,
     isActive |-> aUserSettings.isFeeRatioActive]

RECURSIVE SumPositions(_, _)
SumPositions(positions, i) ==
    IF i > Len(positions) THEN 0
    ELSE positions[i].investment + SumPositions(positions, i + 1)

\* Fees over total investment, 0 when the total is 0; the verdict is false
\* when the ratio exceeds the threshold.
evaluateFeeRatio(ruleSettings, currentPositions) ==
    LET totalInvestment == SumPositions(currentPositions.positions, 1)
        feeRatio == IF totalInvestment = 0 THEN Finite(0, 1)
                    ELSE JsDivide(TRUE, currentPositions.fees, totalInvestment)
        exceeds == feeRatio.num * 100 > ruleSettings.threshold * feeRatio.den
    IN  [outcome |-> "returned",
         template |-> IF exceeds THEN FeesDoExceed ELSE FeesDoNotExceed,
         percent |-> toPrecision3(JsTimes100(feeRatio)),
         currency |-> ruleSettings.baseCurrency,
         value |-> ~exceeds]

\* --------------------------------------------------------------- evaluator

\* The rules of the report, in the order of their registration.
Catalog == <<RuleName, FeeRatioName>>

IsActive(name, aUserSettings) ==
    IF name = RuleName THEN getSettings(aUserSettings).isActive
    ELSE getSettingsFeeRatio(aUserSettings).isActive

\* No rule is skipped.
IsSkippedNever(name, aUserSettings) == FALSE

\* The evaluator skips a rule whose settings are not active.
IsSkipped(name, aUserSettings) == ~IsActive(name, aUserSettings)

\* The evaluator appends an evaluation to the report.
Collect(rules, item) == Append(rules, item)

EvaluateRule(name, aUserSettings, aCurrentPositions) ==
    IF name = RuleName
    THEN evaluate(getSettings(aUserSettings), aCurrentPositions.positions)
    ELSE evaluateFeeRatio(getSettingsFeeRatio(aUserSettings), aCurrentPositions)

PositionsAfterRule(name, aUserSettings, aCurrentPositions) ==
    IF name = RuleName
    THEN positionsAfterEvaluate(getSettings(aUserSettings),
                                aCurrentPositions.positions)
    ELSE aCurrentPositions.positions

\* The record a rule contributes to the report.
ReportItem(name, evaluation) ==
    [name |-> name,
     evaluation |-> [template |-> evaluation.template,
                     percent |-> evaluation.percent,
                     currency |-> evaluation.currency],
     value |-> evaluation.value]

\* The Position Aggregator: the positions and fees of the user's portfolio.
aggregate(aPortfolio) ==
    [positions |-> aPortfolio.positions, fees |-> aPortfolio.fees]

NoPositions == [positions |-> <<>>, fees |-> 0]

NoResponse == [status |-> "none", rules |-> <<>>]

\* ----------------------------------------------- grouping by sector weight

RECURSIVE SumWeights(_, _)
SumWeights(a, i) == IF i > Len(a) THEN 0 ELSE a[i].weight + SumWeights(a, i + 1)

\* The allocations of one position: sequences of {name, weight} over distinct
\* sectors, every weight positive and at most 1.  A position may have no
\* sector, and its weights need not add up to 1.
SectorAllocations ==
    {a \in SeqsUpTo([name : Sectors, weight : 1 .. WeightUnit], Cardinality(Sectors)) :
        \A i, j \in DOMAIN a : i # j => a[i].name # a[j].name}

SectorPosition == [investment : SectorInvestments, sectors : SectorAllocations]

\* The whole investment added to every sector of the position.
SectorAmountUnweighted(position, sector) == position.investment * WeightUnit

\* What a position adds to the group of one of its sectors: its investment
\* times the weight of the sector, in units of 1 / WeightUnit.
SectorAmount(position, sector) == position.investment * sector.weight

RECURSIVE AllocateFrom(_, _, _)
AllocateFrom(position, j, groups) ==
    IF j > Len(position.sectors) THEN groups
    ELSE AllocateFrom(position, j + 1,
                      AddToGroup(groups, position.sectors[j].name,
                                 SectorAmount(position, position.sectors[j]),
                                 position))

RECURSIVE GroupSectorsFrom(_, _, _)
GroupSectorsFrom(positions, i, groups) ==
    IF i > Len(positions) THEN groups
    ELSE GroupSectorsFrom(positions, i + 1, AllocateFrom(positions[i], 1, groups))

\* groupByAttribute(positions, sectors): no pinned key.
groupPositionsBySector(positions) == GroupSectorsFrom(positions, 1, <<>>)

\* -------------------------------------------------------------------- state

VARIABLES
    portfolio,         \* the user's holdings in the data source
    userSettings,      \* the user's settings
    request,           \* the report request being served
    pc,                \* "idle", "evaluating", "responded"
    currentPositions,  \* the CurrentPositions the rules of this run hold
    ruleIndex,         \* the next rule of the catalog
    report,            \* the evaluations collected so far
    response,          \* the response to the request
    runs,              \* requests served
    sectorPositions,   \* input of the sector grouping
    sectorGroups,      \* its result
    sectorGrouped,     \* whether the sector grouping has run
    ruleSettings,      \* the settings evaluate is called with
    positionsGroupedByCurrency,  \* what the grouping returned to evaluate
    evaluateResult,    \* what evaluate returned or threw, <<>> before the call
    handlers,          \* the controller's handlers in flight
    endpoint,          \* the endpoint of the handler that settled last, or "none"
    endpointRequest,   \* what its call came with
    serviceResult,     \* what the portfolio service returned to it
    serviceCalls,      \* calls of the portfolio service it made
    endpointResponse   \* the status and body it answered with

endpointVars == <<handlers, endpoint, endpointRequest, serviceResult,
                  serviceCalls, endpointResponse>>

vars == <<portfolio, userSettings, request, pc, currentPositions, ruleIndex,
          report, response, runs,
          sectorPositions, sectorGroups, sectorGrouped,
          ruleSettings, positionsGroupedByCurrency, evaluateResult, endpointVars>>

reportVars == <<portfolio, userSettings, request, pc, currentPositions,
                ruleIndex, report, response, runs>>

sectorVars == <<sectorPositions, sectorGroups, sectorGrouped>>

evaluateVars == <<ruleSettings, positionsGroupedByCurrency, evaluateResult>>

\* The request of an endpoint: the impersonation-id header ("" when absent),
\* userService.isRestrictedView(user), ENABLE_FEATURE_SUBSCRIPTION, the
\* subscription of the requesting user; for the public endpoint whether an
\* access record exists for the accessId and the subscription of its owner.
EndpointRequest(impersonationId, isRestrictedView, isSubscriptionEnabled, subscriptionType, hasAccess, ownerSubscriptionType) ==
    [impersonationId |-> impersonationId,
     isRestrictedView |-> isRestrictedView,
     isSubscriptionEnabled |-> isSubscriptionEnabled,
     subscriptionType |-> subscriptionType,
     hasAccess |-> hasAccess,
     ownerSubscriptionType |-> ownerSubscriptionType]

NoEndpointRequest == EndpointRequest("", FALSE, FALSE, "Premium", FALSE, "Premium")

\* The requests the controller serves: the second arrives after the first,
\* while the first is in flight or after it has settled.
Handlers == {"first", "second"}

\* A handler has not been entered, awaits the promise of a call (awaits names
\* the call), or has settled.
IdleHandler ==
    [endpoint |-> "none", awaits |-> "nothing", request |-> NoEndpointRequest,
     serviceCalls |-> 0]

SettledHandler ==
    [endpoint |-> "none", awaits |-> "settled", request |-> NoEndpointRequest,
     serviceCalls |-> 0]

\* evaluate has not been called on its own.
EvaluateIdle ==
    /\ ruleSettings = [baseCurrency |-> "USD", isActive |-> TRUE]
    /\ positionsGroupedByCurrency = <<>>
    /\ evaluateResult = <<>>

\* No endpoint has been called.
EndpointsIdle ==
    /\ handlers = [h \in Handlers |-> IdleHandler]
    /\ endpoint = "none"
    /\ endpointRequest = NoEndpointRequest
    /\ serviceResult = <<>>
    /\ serviceCalls = 0
    /\ endpointResponse = [status |-> "none", threw |-> FALSE, body |-> <<>>]

Requests == [isSubscriptionEnabled : BOOLEAN, subscriptionType : {"Basic", "Premium"}]

NoRequest == [isSubscriptionEnabled |-> FALSE, subscriptionType |-> "Premium"]

Init ==
    /\ portfolio \in [positions : SeqsUpTo(Position, MaxPositions), fees : Fees]
    /\ userSettings \in [baseCurrency : Currencies, isFeeRatioActive : BOOLEAN]
    /\ request = NoRequest
    /\ pc = "idle"
    /\ currentPositions = NoPositions
    /\ ruleIndex = 1
    /\ report = <<>>
    /\ response = NoResponse
    /\ runs = 0
    /\ sectorPositions = <<>>
    /\ sectorGroups = <<>>
    /\ sectorGrouped = FALSE
    /\ EvaluateIdle
    /\ EndpointsIdle

\* A request arrives (the first, or the next after a response).
Arrives(r) ==
    /\ pc \in {"idle", "responded"}
    /\ runs < MaxRuns
    /\ request' = r

\* getReport of a Basic subscriber with the subscription feature on.
getReportForbidden ==
    \E r \in Requests :
        /\ Arrives(r)
        /\ r.isSubscriptionEnabled /\ r.subscriptionType = "Basic"
        /\ response' = [status |-> "FORBIDDEN", rules |-> <<>>]
        /\ pc' = "responded"
        /\ runs' = runs + 1
        /\ currentPositions' = NoPositions
        /\ report' = <<>>
        /\ ruleIndex' = 1
        /\ UNCHANGED <<portfolio, userSettings, sectorVars, evaluateVars, endpointVars>>

\* getReport otherwise: portfolioService.getReport aggregates the positions
\* once and hands them to the rules.
getReport ==
    \E r \in Requests :
        /\ Arrives(r)
        /\ ~(r.isSubscriptionEnabled /\ r.subscriptionType = "Basic")
        /\ currentPositions' = aggregate(portfolio)
        /\ report' = <<>>
        /\ ruleIndex' = 1
        /\ response' = NoResponse
        /\ pc' = "evaluating"
        /\ UNCHANGED <<portfolio, userSettings, runs, sectorVars, evaluateVars, endpointVars>>

\* The evaluator takes the next rule of the catalog: skipped when inactive,
\* evaluated and appended to the report otherwise.
evaluateNext ==
    /\ pc = "evaluating"
    /\ ruleIndex <= Len(Catalog)
    /\ LET name == Catalog[ruleIndex]
           evaluation == EvaluateRule(name, userSettings, currentPositions)
       IN  IF IsSkipped(name, userSettings)
           THEN /\ ruleIndex' = ruleIndex + 1
                /\ UNCHANGED <<report, currentPositions, response, pc, runs>>
           ELSE IF evaluation.outcome # "returned"
           THEN /\ response' = [status |-> "INTERNAL_SERVER_ERROR", rules |-> <<>>]
                /\ pc' = "responded"
                /\ runs' = runs + 1
                /\ UNCHANGED <<report, currentPositions, ruleIndex>>
           ELSE /\ report' = Collect(report, ReportItem(name, evaluation))
                /\ currentPositions' =
                       [currentPositions EXCEPT !.positions =
                           PositionsAfterRule(name, userSettings, currentPositions)]
                /\ ruleIndex' = ruleIndex + 1
                /\ UNCHANGED <<response, pc, runs>>
    /\ UNCHANGED <<portfolio, userSettings, request, sectorVars, evaluateVars, endpointVars>>

\* The report is complete: res.json(report).
respond ==
    /\ pc = "evaluating"
    /\ ruleIndex > Len(Catalog)
    /\ response' = [status |-> "OK", rules |-> report]
    /\ pc' = "responded"
    /\ runs' = runs + 1
    /\ UNCHANGED <<portfolio, userSettings, request, currentPositions, ruleIndex,
                   report, sectorVars, evaluateVars, endpointVars>>

Next == getReportForbidden \/ getReport \/ evaluateNext \/ respond

Spec == Init /\ [][Next]_vars

\* ---------------------------------- the sector grouping as a specification

InitSectors ==
    /\ portfolio = [positions |-> <<>>, fees |-> 0]
    /\ userSettings = [baseCurrency |-> "USD", isFeeRatioActive |-> FALSE]
    /\ request = NoRequest
    /\ pc = "idle"
    /\ currentPositions = NoPositions
    /\ ruleIndex = 1
    /\ report = <<>>
    /\ response = NoResponse
    /\ runs = 0
    /\ sectorPositions \in SeqsUpTo(SectorPosition, MaxSectorPositions)
    /\ sectorGroups = <<>>
    /\ sectorGrouped = FALSE
    /\ EvaluateIdle
    /\ EndpointsIdle

groupBySector ==
    /\ ~sectorGrouped
    /\ sectorGroups' = groupPositionsBySector(sectorPositions)
    /\ sectorGrouped' = TRUE
    /\ UNCHANGED <<sectorPositions, reportVars, evaluateVars, endpointVars>>

NextSectors == groupBySector

SpecSectors == InitSectors /\ [][NextSectors]_vars

\* ------------------------------------------ evaluate as a specification
\* evaluate from the return of the grouping on (config.ts:65-99).  The
\* grouping helper belongs to the base class Rule; what it returns is the
\* input of these lines: the groups the grouping makes of some positions,
\* or no group.

GroupingResults(baseCurrency) ==
    {<<>>} \cup {groupCurrentPositionsByAttribute(positions, baseCurrency) :
                    positions \in SeqsUpTo(Position, MaxPositions)}

InitEvaluate ==
    /\ portfolio = [positions |-> <<>>, fees |-> 0]
    /\ userSettings = [baseCurrency |-> "USD", isFeeRatioActive |-> FALSE]
    /\ request = NoRequest
    /\ pc = "idle"
    /\ currentPositions = NoPositions
    /\ ruleIndex = 1
    /\ report = <<>>
    /\ response = NoResponse
    /\ runs = 0
    /\ sectorPositions = <<>>
    /\ sectorGroups = <<>>
    /\ sectorGrouped = FALSE
    /\ ruleSettings \in {getSettings([baseCurrency |-> c]) : c \in Currencies}
    /\ positionsGroupedByCurrency \in GroupingResults(ruleSettings.baseCurrency)
    /\ evaluateResult = <<>>
    /\ EndpointsIdle

\* Lines 65-99 run on what the grouping returned.
evaluateGrouped ==
    /\ evaluateResult = <<>>
    /\ evaluateResult' = <<EvaluateGroups(positionsGroupedByCurrency,
                                      ruleSettings.baseCurrency)>>
    /\ UNCHANGED <<ruleSettings, positionsGroupedByCurrency, reportVars,
                   sectorVars, endpointVars>>

NextEvaluate == evaluateGrouped

SpecEvaluate == InitEvaluate /\ [][NextEvaluate]_vars

\* ------------------------------------- the other endpoints of the controller
\* A handler is an async function: it runs to its next await, where it gives
\* way to the event loop with its call made, and goes on when the promise of
\* the call is settled.  Each action is the handler's code from its entry or
\* from an await to its next await or to its answer.

\* Amounts a field of a service result takes.
Amounts == {1, 2}

\* Largest number of positions, chart items and rules in a service result.
MaxEndpointItems == 1

ImpersonationIds == {"", "impersonated-user"}

SubscriptionTypes == {"Basic", "Premium"}

\* An object is a function from its keys to values; a value is <<v>>, and
\* <<>> is null.

\* nullifyValuesInObject(object, keys): a copy of the object with null under
\* every one of the keys.
nullifyValuesInObject(object, keys) ==
    [key \in DOMAIN object |-> IF key \in keys THEN <<>> ELSE object[key]]

\* The condition under ||: only one of the two is asked for.
HidesAbsoluteValuesOnlyForBoth(req) ==
    req.impersonationId # "" /\ req.isRestrictedView

\* impersonationId || this.userService.isRestrictedView(this.request.user)
HidesAbsoluteValues(req) ==
    req.impersonationId # "" \/ req.isRestrictedView

\* this.configurationService.get('ENABLE_FEATURE_SUBSCRIPTION') &&
\* this.request.user.subscription.type === 'Basic'
IsForbidden(req) ==
    req.isSubscriptionEnabled /\ req.subscriptionType = "Basic"

\* The objects of a service result over the keys: one amount under every
\* key of absolute amounts, one under every other key.
ObjectsOf(keys, amountKeys) ==
    {[key \in keys |-> IF key \in amountKeys THEN <<a>> ELSE <<b>>] :
        a \in Amounts, b \in Amounts}

PositionKeys == {"marketPrice", "grossPerformance", "investment",
                 "netPerformance", "quantity"}

PositionNullifyKeys == {"grossPerformance", "investment", "netPerformance",
                        "quantity"}

PositionObjects == ObjectsOf(PositionKeys, PositionNullifyKeys)

SummaryKeys == {"cash", "committedFunds", "currentGrossPerformance",
                "currentGrossPerformancePercent", "currentNetPerformance",
                "currentValue", "fees", "netWorth", "ordersCount", "totalBuy",
                "totalSell"}

SummaryNullifyKeys == {"cash", "committedFunds", "currentGrossPerformance",
                       "currentNetPerformance", "currentValue", "fees",
                       "netWorth", "totalBuy", "totalSell"}

SummaryObjects == ObjectsOf(SummaryKeys, SummaryNullifyKeys)

PerformanceKeys == {"currentGrossPerformance", "currentGrossPerformancePercent",
                    "currentNetPerformance", "currentNetPerformancePercent",
                    "currentValue"}

PerformanceNullifyKeys == {"currentGrossPerformance", "currentValue"}

PerformanceObjects == ObjectsOf(PerformanceKeys, PerformanceNullifyKeys)

\* The request of a handler with an impersonation id and a restricted view.
ViewRequest(impersonationId, isRestrictedView) ==
    EndpointRequest(impersonationId, isRestrictedView, FALSE, "Premium", FALSE,
                    "Premium")

\* A handler that has not been entered; the second request arrives after
\* the first.
CanEnter(h) ==
    /\ handlers[h] = IdleHandler
    /\ h = "second" => handlers["first"] # IdleHandler

\* Handler h has given way at the await of the call.
IsAwaiting(h, name, call) ==
    handlers[h].endpoint = name /\ handlers[h].awaits = call

\* Handler h of the endpoint gives way at an await: the call is made, its
\* promise is pending and nothing is answered.
Awaits(h, name, req, call, calls) ==
    /\ handlers' = [handlers EXCEPT ![h] = [endpoint |-> name, awaits |-> call,
                                            request |-> req,
                                            serviceCalls |-> calls]]
    /\ UNCHANGED <<endpoint, endpointRequest, serviceResult, serviceCalls,
                   endpointResponse, reportVars, sectorVars, evaluateVars>>

\* Handler h of the endpoint settles with its answer.
Settles(h, name, req, result, calls, answer) ==
    /\ handlers' = [handlers EXCEPT ![h] = SettledHandler]
    /\ endpoint' = name
    /\ endpointRequest' = req
    /\ serviceResult' = result
    /\ serviceCalls' = calls
    /\ endpointResponse' = answer
    /\ UNCHANGED <<reportVars, sectorVars, evaluateVars>>

Answer(status, body) == [status |-> status, threw |-> FALSE, body |-> body]

\* An exception leaves the handler: the framework answers with its status.
Throws(status) == [status |-> status, threw |-> TRUE, body |-> <<>>]

\* GET portfolio/positions: the handler calls the service and awaits it.
getPositions ==
    \E h \in Handlers :
        /\ CanEnter(h)
        /\ \E impersonationId \in ImpersonationIds, isRestrictedView \in BOOLEAN :
              Awaits(h, "getPositions",
                     ViewRequest(impersonationId, isRestrictedView),
                     "portfolioService.getPositions", 1)

\* GET portfolio/positions from the result of the service to the answer.
getPositionsAnswers ==
    \E h \in Handlers :
        /\ IsAwaiting(h, "getPositions", "portfolioService.getPositions")
        /\ \E hasErrors \in BOOLEAN,
              positions \in SeqsUpTo(PositionObjects, MaxEndpointItems) :
            LET req == handlers[h].request
                result == [hasErrors |-> hasErrors, positions |-> positions]
                shown == IF HidesAbsoluteValues(req)
                         THEN [i \in DOMAIN positions |->
                                 nullifyValuesInObject(positions[i],
                                                       PositionNullifyKeys)]
                         ELSE positions
            IN  Settles(h, "getPositions", req, result, handlers[h].serviceCalls,
                        Answer(IF hasErrors THEN "ACCEPTED" ELSE "OK",
                               [hasErrors |-> hasErrors, positions |-> shown]))

\* GET portfolio/position/:symbol : the handler calls the service and awaits
\* it.
getPosition ==
    \E h \in Handlers :
        /\ CanEnter(h)
        /\ \E impersonationId \in ImpersonationIds, isRestrictedView \in BOOLEAN :
              Awaits(h, "getPosition",
                     ViewRequest(impersonationId, isRestrictedView),
                     "portfolioService.getPosition", 1)

\* GET portfolio/position/:symbol from the result of the service on; the
\* service returns no position for an unknown symbol.
getPositionAnswers ==
    \E h \in Handlers :
        /\ IsAwaiting(h, "getPosition", "portfolioService.getPosition")
        /\ \E position \in SeqsUpTo(PositionObjects, 1) :
            LET req == handlers[h].request
            IN  Settles(h, "getPosition", req, position, handlers[h].serviceCalls,
                        IF position = <<>> THEN Throws("NOT_FOUND")
                        ELSE Answer("OK",
                                    IF HidesAbsoluteValues(req)
                                    THEN nullifyValuesInObject(position[1],
                                                               PositionNullifyKeys)
                                    ELSE position[1]))

\* GET portfolio/summary: the handler calls the service and awaits it.
getSummary ==
    \E h \in Handlers :
        /\ CanEnter(h)
        /\ \E impersonationId \in ImpersonationIds, isRestrictedView \in BOOLEAN :
              Awaits(h, "getSummary",
                     ViewRequest(impersonationId, isRestrictedView),
                     "portfolioService.getSummary", 1)

\* GET portfolio/summary from the result of the service to the answer.
getSummaryAnswers ==
    \E h \in Handlers :
        /\ IsAwaiting(h, "getSummary", "portfolioService.getSummary")
        /\ \E summary \in SummaryObjects :
            LET req == handlers[h].request
            IN  Settles(h, "getSummary", req, summary, handlers[h].serviceCalls,
                        Answer("OK",
                               IF HidesAbsoluteValues(req)
                               THEN nullifyValuesInObject(summary,
                                                          SummaryNullifyKeys)
                               ELSE summary))

\* GET portfolio/performance: the handler calls the service and awaits it.
getPerformance ==
    \E h \in Handlers :
        /\ CanEnter(h)
        /\ \E impersonationId \in ImpersonationIds, isRestrictedView \in BOOLEAN :
              Awaits(h, "getPerformance",
                     ViewRequest(impersonationId, isRestrictedView),
                     "portfolioService.getPerformance", 1)

\* GET portfolio/performance from the result of the service to the answer.
getPerformanceAnswers ==
    \E h \in Handlers :
        /\ IsAwaiting(h, "getPerformance", "portfolioService.getPerformance")
        /\ \E hasErrors \in BOOLEAN, performance \in PerformanceObjects :
            LET req == handlers[h].request
                result == [hasErrors |-> hasErrors, performance |-> performance]
            IN  Settles(h, "getPerformance", req, result,
                        handlers[h].serviceCalls,
                        Answer(IF hasErrors THEN "ACCEPTED" ELSE "OK",
                               IF HidesAbsoluteValues(req)
                               THEN nullifyValuesInObject(performance,
                                                          PerformanceNullifyKeys)
                               ELSE performance))

\* Values of the portfolio in the chart.
ChartValues == {0, 3, 40}

\* An item of the chart; the market price can be missing.
ChartItems ==
    [date : {"2021-01-01"}, marketPrice : {<<>>, <<Finite(1, 1)>>},
     value : ChartValues]

\* The containers portfolioService.getChart returns.
ChartContainers ==
    [items : SeqsUpTo(ChartItems, MaxEndpointItems),
     isAllTimeHigh : BOOLEAN, isAllTimeLow : {FALSE}]

\* hasNotDefinedValuesInObject(chartDataItem): a value is null or undefined.
hasNotDefinedValuesInChartItem(chartDataItem) == chartDataItem.marketPrice = <<>>

\* The forEach loop from item i on: a strictly larger value replaces maxValue.
RECURSIVE MaxValueFrom(_, _, _)
MaxValueFrom(chartData, i, maxValue) ==
    IF i > Len(chartData) THEN maxValue
    ELSE MaxValueFrom(chartData, i + 1,
                      IF chartData[i].value > maxValue
                      THEN chartData[i].value ELSE maxValue)

\* A number in the JSON of an answer: NaN and the infinities are written
\* null.
toJSON(x) == IF x.kind = "finite" THEN <<x>> ELSE <<>>

\* The chart with the market price replaced by the share of the largest
\* value, in hundredths.
ChartAsShares(chartData) ==
    LET maxValue == MaxValueFrom(chartData, 1, 0)
    IN  [i \in DOMAIN chartData |->
            [chartData[i] EXCEPT
                !.marketPrice =
                    toJSON(JsNumber(toFixed2(
                        JsDivide(TRUE, chartData[i].value, maxValue))))]]

\* GET portfolio/chart: the handler calls the service and awaits it.
getChart ==
    \E h \in Handlers :
        /\ CanEnter(h)
        /\ \E impersonationId \in ImpersonationIds, isRestrictedView \in BOOLEAN :
              Awaits(h, "getChart",
                     ViewRequest(impersonationId, isRestrictedView),
                     "portfolioService.getChart", 1)

\* GET portfolio/chart from the result of the service to the answer.
getChartAnswers ==
    \E h \in Handlers :
        /\ IsAwaiting(h, "getChart", "portfolioService.getChart")
        /\ \E historicalDataContainer \in ChartContainers :
            LET req == handlers[h].request
                chartData == historicalDataContainer.items
                hasNullValue ==
                    \E i \in DOMAIN chartData :
                        hasNotDefinedValuesInChartItem(chartData[i])
            IN  Settles(h, "getChart", req, historicalDataContainer,
                        handlers[h].serviceCalls,
                        Answer(IF hasNullValue THEN "ACCEPTED" ELSE "OK",
                               [chart |-> IF HidesAbsoluteValues(req)
                                          THEN ChartAsShares(chartData)
                                          ELSE chartData,
                                isAllTimeHigh |->
                                    historicalDataContainer.isAllTimeHigh,
                                isAllTimeLow |->
                                    historicalDataContainer.isAllTimeLow]))

\* Largest number of holdings and investments the service returns.
MaxHoldings == 2

AssetClasses == {"EQUITY", "BOND"}

\* A holding of the details: held in the base currency, its quantity times
\* its market price being its value.
Holding(assetClass, countries, sectors, value) ==
    [assetClass |-> assetClass,
     allocationCurrent |-> Finite(value, 2),
     countries |-> countries,
     currency |-> DefaultBaseCurrency,
     name |-> "name",
     sectors |-> sectors,
     quantity |-> value,
     marketPrice |-> 1,
     investment |-> 1,
     grossPerformance |-> <<0>>,
     netPerformance |-> <<0>>,
     value |-> value]

\* The countries and sectors of a holding: none known, or one of each.
HoldingDetails ==
    {[countries |-> <<>>, sectors |-> <<>>],
     [countries |-> <<[code |-> "US", weight |-> 1]>>,
      sectors |-> <<[name |-> "Technology", weight |-> 1]>>]}

\* The holdings a public portfolio is made of, each of value 1.
Holdings ==
    {Holding(assetClass, details.countries, details.sectors, 1) :
        assetClass \in AssetClasses, details \in HoldingDetails}

\* The holdings of the details, symbol i being the i-th key of the object.
HoldingsObjects == SeqsUpTo(Holdings, MaxHoldings)

\* The holdings of the details of the user's own portfolio.
OwnHoldingsObjects ==
    SeqsUpTo({Holding("EQUITY", <<>>, <<>>, value) : value \in Amounts},
             MaxHoldings)

\* exchangeRateDataService.toCurrency within one currency.
toCurrency(amount, from, to) == amount

\* hasDetails: true, or with the subscription feature whether the owner of
\* the access is a Premium subscriber.
HasDetails(req) ==
    IF req.isSubscriptionEnabled THEN req.ownerSubscriptionType = "Premium"
    ELSE TRUE

\* Every holding is published.
IsPublishedAlways(holding) == TRUE

\* portfolioPosition.assetClass === 'EQUITY'
IsPublished(holding) == holding.assetClass = "EQUITY"

RECURSIVE PublicValueFrom(_, _)
PublicValueFrom(holdings, i) ==
    IF i > Len(holdings) THEN 0
    ELSE (IF IsPublished(holdings[i])
          THEN toCurrency(holdings[i].quantity * holdings[i].marketPrice,
                          holdings[i].currency, DefaultBaseCurrency)
          ELSE 0)
         + PublicValueFrom(holdings, i + 1)

\* totalValue: the value of the equity holdings in the base currency.
PublicTotalValue(holdings) == PublicValueFrom(holdings, 1)

\* One entry of portfolioPublicDetails.holdings.
PublicHolding(symbol, holding, hasDetails, totalValue) ==
    [symbol |-> symbol,
     allocationCurrent |-> holding.allocationCurrent,
     countries |-> IF hasDetails THEN holding.countries ELSE <<>>,
     currency |-> holding.currency,
     name |-> holding.name,
     sectors |-> IF hasDetails THEN holding.sectors ELSE <<>>,
     value |-> JsDivide(TRUE, holding.value, totalValue)]

RECURSIVE PublicHoldingsFrom(_, _, _)
PublicHoldingsFrom(holdings, i, hasDetails) ==
    IF i > Len(holdings) THEN <<>>
    ELSE (IF IsPublished(holdings[i])
          THEN <<PublicHolding(i, holdings[i], hasDetails,
                               PublicTotalValue(holdings))>>
          ELSE <<>>)
         \o PublicHoldingsFrom(holdings, i + 1, hasDetails)

\* portfolioPublicDetails.holdings, an entry per published symbol.
PublicHoldings(holdings, hasDetails) == PublicHoldingsFrom(holdings, 1, hasDetails)

\* GET portfolio/public/:accessId : the handler asks for the access record
\* of the accessId and awaits it.
getPublic ==
    \E h \in Handlers :
        /\ CanEnter(h)
        /\ \E isSubscriptionEnabled \in BOOLEAN :
              Awaits(h, "getPublic",
                     EndpointRequest("", FALSE, isSubscriptionEnabled, "Premium",
                                     FALSE, "Premium"),
                     "accessService.access", 0)

\* The accessId has no access record: access is null, and access.userId is
\* read for the call of userService.user before access is tested.
getPublicWithoutAccess ==
    \E h \in Handlers :
        /\ IsAwaiting(h, "getPublic", "accessService.access")
        /\ Settles(h, "getPublic", handlers[h].request, <<>>,
                   handlers[h].serviceCalls, Throws("INTERNAL_SERVER_ERROR"))

\* The accessId has an access record: the handler asks for its owner and
\* awaits the user.
getPublicWithAccess ==
    \E h \in Handlers :
        /\ IsAwaiting(h, "getPublic", "accessService.access")
        /\ Awaits(h, "getPublic", [handlers[h].request EXCEPT !.hasAccess = TRUE],
                  "userService.user", handlers[h].serviceCalls)

\* The owner is there: access is tested, hasDetails is derived, and the
\* handler calls the service for the details of the owner and awaits it.
getPublicOfUser ==
    \E h \in Handlers :
        /\ IsAwaiting(h, "getPublic", "userService.user")
        /\ \E ownerSubscriptionType \in SubscriptionTypes :
              Awaits(h, "getPublic",
                     [handlers[h].request EXCEPT
                         !.ownerSubscriptionType = ownerSubscriptionType],
                     "portfolioService.getDetails", handlers[h].serviceCalls + 1)

\* GET portfolio/public/:accessId from the details of the service to the
\* answer.
getPublicAnswers ==
    \E h \in Handlers :
        /\ IsAwaiting(h, "getPublic", "portfolioService.getDetails")
        /\ \E holdings \in HoldingsObjects :
            LET req == handlers[h].request
            IN  Settles(h, "getPublic", req, holdings, handlers[h].serviceCalls,
                        Answer("OK", [hasDetails |-> HasDetails(req),
                                      holdings |-> PublicHoldings(holdings,
                                                                  HasDetails(req))]))

\* The subscription guard without the subscription type.
IsForbiddenForEverySubscriber(req) == req.isSubscriptionEnabled

\* The subscription guard of getReport, getDetails and findAll.
IsForbiddenRequest(req) == IsForbidden(req)

\* The reports portfolioService.getReport returns.
Reports ==
    [rules : SeqsUpTo([name : {RuleName}, value : BOOLEAN], MaxEndpointItems)]

\* GET portfolio/report as the controller sees it: a guarded request is
\* answered at once, for any other the handler calls the service and awaits
\* it.
getReportOfService ==
    \E h \in Handlers :
        /\ CanEnter(h)
        /\ \E impersonationId \in ImpersonationIds,
              isSubscriptionEnabled \in BOOLEAN,
              subscriptionType \in SubscriptionTypes :
            LET req == EndpointRequest(impersonationId, FALSE,
                                       isSubscriptionEnabled, subscriptionType,
                                       FALSE, "Premium")
            IN  IF IsForbiddenRequest(req)
                THEN Settles(h, "getReport", req, <<>>, 0,
                             Answer("FORBIDDEN", [rules |-> <<>>]))
                ELSE Awaits(h, "getReport", req, "portfolioService.getReport", 1)

\* GET portfolio/report from the report of the service to the answer: the
\* report is what portfolioService.getReport returns; hasErrors tells whether
\* the aggregation behind it left symbols without a price, which the report
\* does not carry.
getReportOfServiceAnswers ==
    \E h \in Handlers :
        /\ IsAwaiting(h, "getReport", "portfolioService.getReport")
        /\ \E hasErrors \in BOOLEAN, rules \in Reports :
              Settles(h, "getReport", handlers[h].request,
                      [hasErrors |-> hasErrors, report |-> rules],
                      handlers[h].serviceCalls, Answer("OK", rules))

\* The investments portfolioService.getInvestments returns.
InvestmentItems ==
    SeqsUpTo([date : {"2021-01-01"}, investment : {Finite(a, 1) : a \in Amounts}],
             MaxHoldings)

RECURSIVE MaxInvestmentFrom(_, _, _)
MaxInvestmentFrom(investments, i, investment) ==
    IF i > Len(investments) THEN investment
    ELSE MaxInvestmentFrom(investments, i + 1,
                           IF investments[i].investment.num > investment
                           THEN investments[i].investment.num ELSE investment)

\* investments.reduce((investment, item) => Math.max(investment, item.investment), 1)
MaxInvestment(investments) == MaxInvestmentFrom(investments, 1, 1)

\* GET portfolio/investments: a guarded request is answered at once, for any
\* other the handler calls the service and awaits it.
findAll ==
    \E h \in Handlers :
        /\ CanEnter(h)
        /\ \E impersonationId \in ImpersonationIds, isRestrictedView \in BOOLEAN,
              isSubscriptionEnabled \in BOOLEAN,
              subscriptionType \in SubscriptionTypes :
            LET req == EndpointRequest(impersonationId, isRestrictedView,
                                       isSubscriptionEnabled, subscriptionType,
                                       FALSE, "Premium")
            IN  IF IsForbiddenRequest(req)
                THEN Settles(h, "findAll", req, <<>>, 0, Answer("FORBIDDEN", <<>>))
                ELSE Awaits(h, "findAll", req, "portfolioService.getInvestments", 1)

\* GET portfolio/investments from the investments of the service to the
\* answer.
findAllAnswers ==
    \E h \in Handlers :
        /\ IsAwaiting(h, "findAll", "portfolioService.getInvestments")
        /\ \E investments \in InvestmentItems :
            LET req == handlers[h].request
                shown == IF HidesAbsoluteValues(req)
                         THEN [i \in DOMAIN investments |->
                                 [date |-> investments[i].date,
                                  investment |->
                                      JsDivide(TRUE, investments[i].investment.num,
                                               MaxInvestment(investments))]]
                         ELSE investments
            IN  Settles(h, "findAll", req, investments, handlers[h].serviceCalls,
                        Answer("OK", shown))

RECURSIVE SumField(_, _, _)
SumField(holdings, i, value) ==
    IF i > Len(holdings) THEN 0
    ELSE value[i] + SumField(holdings, i + 1, value)

\* The details portfolioService.getDetails returns: the holdings, one account
\* that holds them all, and whether the aggregation had errors.
Details(holdings, hasErrors) ==
    [accounts |-> <<[name |-> "account",
                     current |-> Finite(SumField(holdings, 1,
                                     [i \in DOMAIN holdings |-> holdings[i].value]), 1),
                     original |-> Finite(SumField(holdings, 1,
                                     [i \in DOMAIN holdings |-> holdings[i].investment]), 1)]>>,
     holdings |-> holdings,
     hasErrors |-> hasErrors]

\* hasNotDefinedValuesInObject(holdings): a value is null or undefined.
hasNotDefinedValuesInObject(holdings) ==
    \E i \in DOMAIN holdings :
        holdings[i].grossPerformance = <<>> \/ holdings[i].netPerformance = <<>>

\* A number in the JSON of the details: a finite number as it is, NaN and the
\* infinities (a share of a total of 0) written null.
NumberOrNull(x) == IF x.kind = "finite" THEN x ELSE <<>>

\* The holdings and accounts of the details as shares of the totals, as
\* res.json writes them.
DetailsAsShares(details) ==
    LET holdings == details.holdings
        totalInvestment ==
            SumField(holdings, 1, [i \in DOMAIN holdings |-> holdings[i].investment])
        totalValue ==
            SumField(holdings, 1,
                     [i \in DOMAIN holdings |->
                         toCurrency(holdings[i].quantity * holdings[i].marketPrice,
                                    holdings[i].currency, DefaultBaseCurrency)])
    IN  [accounts |->
            [a \in DOMAIN details.accounts |->
                [name |-> details.accounts[a].name,
                 current |-> NumberOrNull(JsDivide(TRUE,
                                 details.accounts[a].current.num, totalValue)),
                 original |-> NumberOrNull(JsDivide(TRUE,
                                  details.accounts[a].original.num, totalInvestment))]],
         holdings |->
            [i \in DOMAIN holdings |->
                [holdings[i] EXCEPT
                    !.grossPerformance = <<>>,
                    !.investment = NumberOrNull(JsDivide(TRUE, holdings[i].investment,
                                                         totalInvestment)),
                    !.netPerformance = <<>>,
                    !.quantity = <<>>,
                    !.value = NumberOrNull(JsDivide(TRUE, holdings[i].value,
                                                    totalValue))]]]

\* GET portfolio/details: a guarded request is answered at once, for any
\* other the handler calls the service and awaits it.
getDetails ==
    \E h \in Handlers :
        /\ CanEnter(h)
        /\ \E impersonationId \in ImpersonationIds, isRestrictedView \in BOOLEAN,
              isSubscriptionEnabled \in BOOLEAN,
              subscriptionType \in SubscriptionTypes :
            LET req == EndpointRequest(impersonationId, isRestrictedView,
                                       isSubscriptionEnabled, subscriptionType,
                                       FALSE, "Premium")
            IN  IF IsForbiddenRequest(req)
                THEN Settles(h, "getDetails", req, <<>>, 0,
                             Answer("FORBIDDEN",
                                    [accounts |-> <<>>, holdings |-> <<>>]))
                ELSE Awaits(h, "getDetails", req, "portfolioService.getDetails", 1)

\* GET portfolio/details from the details of the service to the answer.
getDetailsAnswers ==
    \E h \in Handlers :
        /\ IsAwaiting(h, "getDetails", "portfolioService.getDetails")
        /\ \E hasErrors \in BOOLEAN, holdings \in OwnHoldingsObjects :
            LET req == handlers[h].request
                details == Details(holdings, hasErrors)
                status == IF details.hasErrors
                             \/ hasNotDefinedValuesInObject(details.holdings)
                          THEN "ACCEPTED" ELSE "OK"
            IN  Settles(h, "getDetails", req, details, handlers[h].serviceCalls,
                        Answer(status,
                               IF HidesAbsoluteValues(req)
                               THEN DetailsAsShares(details)
                               ELSE [accounts |-> details.accounts,
                                     holdings |-> details.holdings]))

InitEndpoints ==
    /\ portfolio = [positions |-> <<>>, fees |-> 0]
    /\ userSettings = [baseCurrency |-> "USD", isFeeRatioActive |-> FALSE]
    /\ request = NoRequest
    /\ pc = "idle"
    /\ currentPositions = NoPositions
    /\ ruleIndex = 1
    /\ report = <<>>
    /\ response = NoResponse
    /\ runs = 0
    /\ sectorPositions = <<>>
    /\ sectorGroups = <<>>
    /\ sectorGrouped = FALSE
    /\ EvaluateIdle
    /\ EndpointsIdle

NextEndpoints ==
    \/ getPositions
    \/ getPositionsAnswers
    \/ getPosition
    \/ getPositionAnswers
    \/ getSummary
    \/ getSummaryAnswers
    \/ getPerformance
    \/ getPerformanceAnswers
    \/ getChart
    \/ getChartAnswers
    \/ getPublic
    \/ getPublicWithoutAccess
    \/ getPublicWithAccess
    \/ getPublicOfUser
    \/ getPublicAnswers
    \/ getReportOfService
    \/ getReportOfServiceAnswers
    \/ findAll
    \/ findAllAnswers
    \/ getDetails
    \/ getDetailsAnswers

SpecEndpoints == InitEndpoints /\ [][NextEndpoints]_vars

\* ------------------------------------------------------------------ claims

\* The base-currency rule has just been evaluated: its item is report[1].
RuleOneEvaluated == pc = "evaluating" /\ ruleIndex = 2 /\ Len(report) = 1

HeldPositions == currentPositions.positions

BaseCurrencyOfUser == userSettings.baseCurrency

RECURSIVE InvestmentFrom(_, _, _)
InvestmentFrom(positions, i, currency) ==
    IF i > Len(positions) THEN 0
    ELSE (IF positions[i].currency = currency THEN positions[i].investment ELSE 0)
         + InvestmentFrom(positions, i + 1, currency)

\* The summed investment of the positions held in a currency.
InvestmentIn(currency) == InvestmentFrom(HeldPositions, 1, currency)

HeldCurrencies == {HeldPositions[i].currency : i \in DOMAIN HeldPositions}

SumOfInvestments == SumPositions(HeldPositions, 1)

\* No currency group has a larger summed investment than the base currency's.
BaseGroupIsLargest ==
    \A c \in HeldCurrencies : InvestmentIn(c) <= InvestmentIn(BaseCurrencyOfUser)

\* C1: the verdict of the base-currency rule is true exactly when the group
\* of the largest summed investment is the base-currency group, and false
\* exactly when another group is the largest.
C1_VerdictIffBaseIsLargest ==
    RuleOneEvaluated => (report[1].value <=> BaseGroupIsLargest)

\* The percentage in the text, times total, against 100 * base investment:
\* shown = digits * 10^(exponent - 2), compared without dividing.
ShownPercent == report[1].evaluation.percent

\* |shown - 100 * base / total| <= half a unit of the third significant digit
PercentWithinHalfUnit ==
    LET p == 100 * Abs(InvestmentIn(BaseCurrencyOfUser))
        q == Abs(SumOfInvestments)
        e == ShownPercent.exponent
        d == ShownPercent.digits
    IN  IF e >= 2
        THEN 2 * Abs(d * Pow10(e - 2) * q - p) <= Pow10(e - 2) * q
        ELSE 2 * Abs(d * q - p * Pow10(2 - e)) <= q

PercentIsExact ==
    LET p == 100 * Abs(InvestmentIn(BaseCurrencyOfUser))
        q == Abs(SumOfInvestments)
        e == ShownPercent.exponent
        d == ShownPercent.digits
    IN  IF e >= 2 THEN d * Pow10(e - 2) * q = p ELSE d * q = p * Pow10(2 - e)

PercentSignIsRight ==
    ShownPercent.negative <=>
        ((InvestmentIn(BaseCurrencyOfUser) < 0) # (SumOfInvestments < 0)
         /\ InvestmentIn(BaseCurrencyOfUser) # 0)

\* C2 as stated: with a non-zero total the percentage in the text equals
\* 100 * (base-currency investment) / (total investment).
C2_PercentIsExactShare ==
    (RuleOneEvaluated /\ SumOfInvestments # 0) =>
        /\ ShownPercent.kind = "finite"
        /\ PercentSignIsRight
        /\ PercentIsExact

\* C2 as amended: with a non-zero total the percentage in the text is
\* 100 * base / total rounded to three significant digits, in both branches.
C2_PercentIsRoundedShare ==
    (RuleOneEvaluated /\ SumOfInvestments # 0) =>
        /\ ShownPercent.kind = "finite"
        /\ ShownPercent.digits = 0 \/ ShownPercent.digits \in 100 .. 999
        /\ PercentSignIsRight
        /\ PercentWithinHalfUnit

\* A share that three digits cannot write exactly, in the "not in" branch.
C2_Witness ==
    /\ RuleOneEvaluated
    /\ SumOfInvestments # 0
    /\ ~PercentIsExact
    /\ report[1].value = FALSE
    /\ ShownPercent.digits = 333

ReportNames(rules) == {rules[i].name : i \in DOMAIN rules}

\* C3: a rule whose settings have isActive = false is in no report, and
\* every rule of a report has isActive = true.
C3_InactiveRuleNeverReported ==
    /\ \A name \in ReportNames(report) : IsActive(name, userSettings)
    /\ \A name \in ReportNames(response.rules) : IsActive(name, userSettings)

\* A report was returned without the inactive fee-ratio rule.
C3_Witness ==
    /\ pc = "responded"
    /\ response.status = "OK"
    /\ ~IsActive(FeeRatioName, userSettings)
    /\ ReportNames(response.rules) = {RuleName}

\* No position is in a group: the position set was empty and the grouping
\* returned the pinned group alone, or it returned no group.
C4_NoPositionGrouped ==
    \A i \in DOMAIN positionsGroupedByCurrency :
        positionsGroupedByCurrency[i].positions = <<>>

\* C4: with an empty position set, or when the grouping returns no group,
\* evaluate raises no error and returns an Evaluation of a boolean value and
\* a text.
C4_EmptyGroupingEvaluates ==
    (evaluateResult # <<>> /\ C4_NoPositionGrouped) =>
        /\ evaluateResult[1].outcome = "returned"
        /\ evaluateResult[1].value \in BOOLEAN
        /\ evaluateResult[1].template \in {IsInBaseCurrency, IsNotInBaseCurrency}

\* C5: when the total investment is zero the ratio is the fallback 0: the
\* text shows 0.00, never NaN or an infinity, and no error is raised.
C5_ZeroTotalFallsBackToZero ==
    /\ (RuleOneEvaluated /\ SumOfInvestments = 0) =>
          /\ ShownPercent.kind = "finite"
          /\ ShownPercent.digits = 0
    /\ SumPositions(portfolio.positions, 1) = 0 =>
          response.status # "INTERNAL_SERVER_ERROR"

\* C6: the grouping pinned to the base currency always has a group of the
\* base currency, of investment 0 when no position is held in it, so the
\* lookup in evaluate finds an entry.
C6_BaseGroupAlwaysFound ==
    RuleOneEvaluated =>
        LET groups == groupCurrentPositionsByAttribute(HeldPositions,
                                                       BaseCurrencyOfUser)
            baseCurrencyItem == BaseCurrencyItem(groups, BaseCurrencyOfUser)
        IN  /\ baseCurrencyItem # <<>>
            /\ baseCurrencyItem[1].groupKey = BaseCurrencyOfUser
            /\ BaseCurrencyOfUser \notin HeldCurrencies =>
                  /\ baseCurrencyItem[1].investment = 0
                  /\ baseCurrencyItem[1].positions = <<>>

\* Positions are held, none of them in the base currency.
C6_Witness ==
    /\ RuleOneEvaluated
    /\ HeldPositions # <<>>
    /\ BaseCurrencyOfUser \notin HeldCurrencies
    /\ ShownPercent.digits = 0

RECURSIVE SumSectorPositions(_, _)
SumSectorPositions(positions, i) ==
    IF i > Len(positions) THEN 0
    ELSE positions[i].investment + SumSectorPositions(positions, i + 1)

\* The groups' investments (in units of 1 / WeightUnit) add up to the
\* positions' investments.
C7_TotalIsPreserved ==
    SumInvestment(sectorGroups, 1) =
        WeightUnit * SumSectorPositions(sectorPositions, 1)

\* The weights of every position add up to 1.
C7_WeightsAddUpToOne ==
    \A i \in DOMAIN sectorPositions :
        SumWeights(sectorPositions[i].sectors, 1) = WeightUnit

\* C7 as stated: for all position sets, grouping by a fractional-weight
\* attribute preserves the total investment: the groups' investments add up
\* to the positions' investments, not to a multiple.
C7_SectorGroupingPreservesTotal == sectorGrouped => C7_TotalIsPreserved

\* C7 as amended: the total investment is preserved for position sets in
\* which the weights of every position add up to 1.
C7_FullyAllocatedGroupingPreservesTotal ==
    (sectorGrouped /\ C7_WeightsAddUpToOne) => C7_TotalIsPreserved

\* Two positions of non-zero investment were grouped, one of them split over
\* two sectors, and they share a group.
C7_Witness ==
    /\ sectorGrouped
    /\ C7_WeightsAddUpToOne
    /\ Len(sectorPositions) = 2
    /\ Len(sectorGroups) = 2
    /\ sectorPositions[1].investment > 0
    /\ sectorPositions[2].investment > 0
    /\ Len(sectorPositions[1].sectors) = 2
    /\ Len(sectorPositions[2].sectors) = 1

\* The orders in which the same positions can be presented.
OrdersOf(positions) ==
    IF positions = <<>> THEN {<<>>}
    ELSE {[i \in DOMAIN positions |-> positions[f[i]]] :
             f \in Permutations(DOMAIN positions)}

\* C8: the verdict of the base-currency rule is the same for every order of
\* the same positions, ties of the base-currency group included.
C8_VerdictIndependentOfOrder ==
    RuleOneEvaluated =>
        \A reordered \in OrdersOf(HeldPositions) :
            evaluate(getSettings(userSettings), reordered).value = report[1].value

\* C9: evaluate leaves the CurrentPositions held by the rule and the settings
\* as they were, so every later rule of the run sees the aggregated snapshot.
C9_EvaluateLeavesInputsUnchanged ==
    /\ [][(pc = "evaluating" /\ ruleIndex = 1 /\ ruleIndex' = 2) =>
             (currentPositions' = currentPositions /\ userSettings' = userSettings)]_vars
    /\ [](pc = "evaluating" => currentPositions = aggregate(portfolio))

\* The rule was evaluated on positions that are not in descending order.
C9_Witness ==
    /\ RuleOneEvaluated
    /\ Len(HeldPositions) = 2
    /\ HeldPositions[1].investment < HeldPositions[2].investment

\* The fields of the claim, per endpoint.
C12_PositionAmounts == {"grossPerformance", "investment", "netPerformance", "quantity"}

C12_SummaryAmounts == {"cash", "currentValue", "fees", "netWorth", "totalBuy", "totalSell"}

C12_PerformanceAmounts == {"currentGrossPerformance", "currentValue"}

C12_Anonymous ==
    endpointRequest.impersonationId # "" \/ endpointRequest.isRestrictedView

AllNull(object, keys) == \A key \in keys : object[key] = <<>>

\* C12: in getPositions, getPosition, getSummary and getPerformance every
\* field of the nullify list is null in the response when an impersonation
\* id is supplied or the user has a restricted view.
C12_AbsoluteAmountsAreNull ==
    (C12_Anonymous /\ ~endpointResponse.threw) =>
        /\ endpoint = "getPositions" =>
              \A i \in DOMAIN endpointResponse.body.positions :
                  AllNull(endpointResponse.body.positions[i], C12_PositionAmounts)
        /\ endpoint = "getPosition" =>
              AllNull(endpointResponse.body, C12_PositionAmounts)
        /\ endpoint = "getSummary" =>
              AllNull(endpointResponse.body, C12_SummaryAmounts)
        /\ endpoint = "getPerformance" =>
              AllNull(endpointResponse.body, C12_PerformanceAmounts)

\* The summary of a user with a restricted view and no impersonation id was
\* returned, the other fields as the service gave them.
C12_Witness ==
    /\ endpoint = "getSummary"
    /\ endpointRequest.impersonationId = ""
    /\ endpointRequest.isRestrictedView
    /\ serviceResult["netWorth"] = <<2>>
    /\ endpointResponse.body["netWorth"] = <<>>
    /\ endpointResponse.body["ordersCount"] = <<2>>

\* C13: getPublic for an accessId without an access record answers
\* NOT_FOUND with the empty body, raises no error and does not call
\* portfolioService.getDetails.
C13_UnknownAccessIsNotFound ==
    (endpoint = "getPublic" /\ ~endpointRequest.hasAccess) =>
        /\ ~endpointResponse.threw
        /\ endpointResponse.status = "NOT_FOUND"
        /\ endpointResponse.body = [accounts |-> <<>>, holdings |-> <<>>]
        /\ serviceCalls = 0

\* The symbols of a sequence of published holdings.
PublishedSymbols(published) == {published[i].symbol : i \in DOMAIN published}

\* C15: a successful getPublic response holds exactly the EQUITY holdings,
\* and without hasDetails (subscription feature on, owner not Premium) every
\* one of them has empty countries and sectors.
C15_PublicShowsEquityOnly ==
    (endpoint = "getPublic" /\ ~endpointResponse.threw
                            /\ endpointResponse.status = "OK") =>
        LET shown == endpointResponse.body.holdings
        IN  /\ PublishedSymbols(shown) =
                  {i \in DOMAIN serviceResult : serviceResult[i].assetClass = "EQUITY"}
            /\ Len(shown) = Cardinality(PublishedSymbols(shown))
            /\ endpointResponse.body.hasDetails =
                  ~(endpointRequest.isSubscriptionEnabled
                    /\ endpointRequest.ownerSubscriptionType # "Premium")
            /\ ~endpointResponse.body.hasDetails =>
                  \A i \in DOMAIN shown :
                      shown[i].countries = <<>> /\ shown[i].sectors = <<>>

\* An equity holding with countries and sectors next to a bond, published
\* without details.
C15_Witness ==
    /\ endpoint = "getPublic"
    /\ endpointResponse.status = "OK"
    /\ ~endpointResponse.body.hasDetails
    /\ Len(serviceResult) = 2
    /\ serviceResult[1].assetClass = "BOND"
    /\ serviceResult[2].assetClass = "EQUITY"
    /\ serviceResult[2].countries # <<>>
    /\ serviceResult[2].sectors # <<>>
    /\ PublishedSymbols(endpointResponse.body.holdings) = {2}

\* C11: a report built from an aggregation that had errors is returned and
\* flagged as incomplete (status ACCEPTED), never unflagged.
C11_DegradedReportIsFlagged ==
    (endpoint = "getReport" /\ serviceCalls = 1 /\ serviceResult.hasErrors) =>
        /\ ~endpointResponse.threw
        /\ endpointResponse.body = serviceResult.report
        /\ endpointResponse.status = "ACCEPTED"

C14_Guarded == endpoint \in {"getReport", "getDetails", "findAll"}

C14_IsBasicWithFeature ==
    /\ endpointRequest.isSubscriptionEnabled
    /\ endpointRequest.subscriptionType = "Basic"

C14_EmptyPayload ==
    IF endpoint = "getReport" THEN [rules |-> <<>>]
    ELSE IF endpoint = "getDetails" THEN [accounts |-> <<>>, holdings |-> <<>>]
    ELSE <<>>

\* The response carries what the service returned.
C14_ResultIsReturned ==
    IF endpoint = "getReport" THEN endpointResponse.body = serviceResult.report
    ELSE IF endpoint = "getDetails"
    THEN /\ endpointResponse.body.accounts = serviceResult.accounts
         /\ endpointResponse.body.holdings = serviceResult.holdings
    ELSE /\ Len(endpointResponse.body) = Len(serviceResult)
         /\ \A i \in DOMAIN serviceResult :
               /\ endpointResponse.body[i].date = serviceResult[i].date
               /\ endpointResponse.body[i].investment.kind = "finite"
               /\ endpointResponse.body[i].investment.num * serviceResult[i].investment.den
                  = serviceResult[i].investment.num * endpointResponse.body[i].investment.den

C14_ForbiddenIsEmpty ==
    (C14_Guarded /\ C14_IsBasicWithFeature) =>
        /\ endpointResponse.status = "FORBIDDEN"
        /\ endpointResponse.body = C14_EmptyPayload
        /\ serviceCalls = 0

\* C14 as stated: a Basic subscriber with the subscription feature on gets
\* FORBIDDEN and an empty payload from getReport, getDetails and findAll
\* without a call of the service; in every other case the service is called
\* once and its result is returned.
C14_ForbiddenOrResultReturned ==
    /\ C14_ForbiddenIsEmpty
    /\ (C14_Guarded /\ ~C14_IsBasicWithFeature) =>
          /\ serviceCalls = 1
          /\ C14_ResultIsReturned

\* C14 as amended: in every other case the service is called once; getReport
\* returns its result, and getDetails (the accounts and holdings of it) and
\* findAll return it when no impersonation id is supplied and the user has
\* no restricted view.
C14_ForbiddenOrServiceCalledOnce ==
    /\ C14_ForbiddenIsEmpty
    /\ (C14_Guarded /\ ~C14_IsBasicWithFeature) =>
          /\ serviceCalls = 1
          /\ endpointResponse.status # "FORBIDDEN"
          /\ (endpoint = "getReport" \/ ~C12_Anonymous) => C14_ResultIsReturned

\* A Premium subscriber with the feature on got the details as returned.
C14_Witness ==
    /\ endpoint = "getDetails"
    /\ endpointRequest.isSubscriptionEnabled
    /\ endpointRequest.subscriptionType = "Premium"
    /\ ~C12_Anonymous
    /\ serviceCalls = 1
    /\ Len(serviceResult.holdings) = 2
    /\ endpointResponse.body.holdings = serviceResult.holdings

====
